---- MODULE Spec2Model ----
(***************************************************************************)
(* Client-side synchronisation logic of the shared physics canvas          *)
(* (src/client/src/routes/game/+page.svelte): pointer handlers, the        *)
(* joinedPhysics gate of outbound intents, the object cache, the remote     *)
(* cursor map and the render loop.  All handlers run on one cooperative     *)
(* event loop, so every handler is one atomic action.                       *)
(***************************************************************************)
EXTENDS Integers, Sequences, FiniteSets, TLC

\* ------------------------------------------------------------------------
\* Values
\* ------------------------------------------------------------------------
Undef == "undefined"
Null == "null"

\* an optional value that is not a string: absent, or present with value v
None == <<>>
Some(v) == <<v>>

canvasWidth == 2048
canvasHeight == 1024
RADIUS == 20

\* throwVelocity = mouseVelocity * 0.3, kept as the exact fraction 3/10
ThrowNum == 3
ThrowDen == 10

\* ------------------------------------------------------------------------
\* Bounds of the model
\* ------------------------------------------------------------------------
MaxTime == 2001     \* performance.now() (milliseconds) runs over 1..MaxTime
MaxSamples == 3     \* pointer samples recorded per drag session (grab included)
MaxHandle == 5      \* requestAnimationFrame handles handed out
NumIds == 3         \* socket ids the server hands out
MaxBodies == 2      \* bodies per state payload

\* time that passes before a handler runs, in milliseconds
TimeSteps == {0, 1000}

\* socket ids, numbered in the order of the bound
Ids == 1..NumIds

\* Math.floor(Math.random() * 360) ranges over 0..359; the model draws from
\* these representatives
HueSamples == {0, 359}

Pt(x, y) == [x |-> x, y |-> y]

\* a velocity in px/s is kept as an exact fraction: nx and ny pixels per d
\* milliseconds, that is (nx / (d / 1000), ny / (d / 1000))
Vel(nx, ny, d) == [nx |-> nx, ny |-> ny, d |-> d]
ZeroVel == Vel(0, 0, 1000)
VelEq(v, w) == v.nx * w.d = w.nx * v.d /\ v.ny * w.d = w.ny * v.d

Max2(a, b) == IF a >= b THEN a ELSE b
Min2(a, b) == IF a <= b THEN a ELSE b
Abs(a) == IF a < 0 THEN 0 - a ELSE a

\* ------------------------------------------------------------------------
\* Pure functions
\* ------------------------------------------------------------------------

\* the transform without the clamp
transformUnclamped(clientX, clientY, rect) ==
    Pt(((clientX - rect.left) * canvasWidth) \div rect.width,
       ((clientY - rect.top) * canvasHeight) \div rect.height)

\* transformMouseToCanvas: scale by canvas size / rendered size, then clamp.
\* The rendered sizes the model draws are powers of two, for which
\* canvas.width / rect.width and the product are exact, so the integer
\* quotient below is the value the floating-point code computes.
transformMouseToCanvas(clientX, clientY, rect) ==
    LET x == ((clientX - rect.left) * canvasWidth) \div rect.width
        y == ((clientY - rect.top) * canvasHeight) \div rect.height
        clampedX == Max2(0, Min2(canvasWidth, x))
        clampedY == Max2(0, Min2(canvasHeight, y))
    IN  Pt(clampedX, clampedY)

\* the event's target is the canvas element: the viewport point lies in the
\* canvas' bounding box
OverCanvas(clientX, clientY, rect) ==
    /\ clientX >= rect.left /\ clientX <= rect.left + rect.width
    /\ clientY >= rect.top /\ clientY <= rect.top + rect.height

\* JavaScript truthiness of an optional number (o.width && o.height)
Truthy(v) == v # None /\ v # Some(0)

\* body of the for-loop of handleCanvasMousedown: the hit test of one object
IsHit(o, mx, my) ==
    LET dx == mx - o.x
        dy == my - o.y
    IN  IF Truthy(o.width) /\ Truthy(o.height)
        THEN 2 * Abs(dx) <= o.width[1] /\ 2 * Abs(dy) <= o.height[1]
        ELSE dx * dx + dy * dy <= RADIUS * RADIUS

\* the loop without its break: the last object hit wins
LastHit(objs, mx, my) ==
    IF \E i \in 1..Len(objs) : IsHit(objs[i], mx, my)
    THEN CHOOSE i \in 1..Len(objs) :
            /\ IsHit(objs[i], mx, my)
            /\ \A j \in (i + 1)..Len(objs) : ~IsHit(objs[j], mx, my)
    ELSE 0

\* for (const id in objects) ... break: index of the first object hit in
\* iteration order, 0 when none is hit
FirstHit(objs, mx, my) ==
    IF \E i \in 1..Len(objs) : IsHit(objs[i], mx, my)
    THEN CHOOSE i \in 1..Len(objs) :
            /\ IsHit(objs[i], mx, my)
            /\ \A j \in 1..(i - 1) : ~IsHit(objs[j], mx, my)
    ELSE 0

\* objects[o.id] = { ...objects[o.id], ...o }: the fields the new entry lacks
\* survive from the old one
PutBodyMerged(objs, o) ==
    LET Merge(old) ==
            [id |-> o.id, x |-> o.x, y |-> o.y, angle |-> o.angle,
             width |-> IF o.width = None THEN old.width ELSE o.width,
             height |-> IF o.height = None THEN old.height ELSE o.height,
             image |-> IF o.image = Undef THEN old.image ELSE o.image]
    IN  IF \E i \in 1..Len(objs) : objs[i].id = o.id
        THEN [i \in 1..Len(objs) |->
                 IF objs[i].id = o.id THEN Merge(objs[i]) ELSE objs[i]]
        ELSE Append(objs, o)

\* objects[o.id] = o on a plain object: an existing key keeps its place in
\* the iteration order, a new key goes last (ids are non-numeric strings)
PutBody(objs, o) ==
    IF \E i \in 1..Len(objs) : objs[i].id = o.id
    THEN [i \in 1..Len(objs) |-> IF objs[i].id = o.id THEN o ELSE objs[i]]
    ELSE Append(objs, o)

\* objects = {} before the loop: the snapshot replaces the whole cache
RECURSIVE ApplyBodiesReplacing(_, _)
ApplyBodiesReplacing(objs, bodies) ==
    IF bodies = <<>> THEN <<>>
    ELSE PutBody(ApplyBodiesReplacing(objs, SubSeq(bodies, 1, Len(bodies) - 1)),
                 bodies[Len(bodies)])

\* payload.bodies.forEach((o) => { objects[o.id] = o; })
RECURSIVE ApplyBodies(_, _)
ApplyBodies(objs, bodies) ==
    IF bodies = <<>> THEN objs
    ELSE ApplyBodies(PutBody(objs, Head(bodies)), Tail(bodies))

\* the throw at full power
ThrowVelocityUndamped(v) == v

\* throwVelocity = { x: mouseVelocity.x * 0.3, y: mouseVelocity.y * 0.3 }
ThrowVelocity(v) == Vel(v.nx * ThrowNum, v.ny * ThrowNum, v.d * ThrowDen)

\* the sample taken without the test of deltaTime
SampleVelocityUnguarded(vel, lastPos, lastTime, p, t) ==
    IF lastTime > 0
    THEN Vel(p.x - lastPos.x, p.y - lastPos.y, t - lastTime)
    ELSE vel

\* mouseVelocity after one sample of handleWindowMousemove
SampleVelocity(vel, lastPos, lastTime, p, t) ==
    IF lastTime > 0
    THEN IF t - lastTime > 0
         THEN Vel(p.x - lastPos.x, p.y - lastPos.y, t - lastTime)
         ELSE vel
    ELSE vel

\* an emit wrapper without the gate
safeEmitUngated(joined, msgs) == msgs

\* safeEmit: socket.emit only when joinedPhysics
safeEmit(joined, msgs) == IF joined THEN msgs ELSE <<>>

\* a packet: the event name and the arguments after it
Msg(ev, args) == [event |-> ev, args |-> args]

\* The drag messages transmitted so far, read as brackets: "closed" when
\* every startDrag has had its endDrag, "open" after a startDrag, "broken"
\* once a drag or endDrag came without a startDrag before it or a startDrag
\* came inside an open one.
WireStep(w, ev) ==
    IF w = "broken" THEN "broken"
    ELSE IF ev = "startDrag" THEN (IF w = "closed" THEN "open" ELSE "broken")
    ELSE IF ev = "drag" THEN (IF w = "open" THEN "open" ELSE "broken")
    ELSE IF ev = "endDrag" THEN (IF w = "open" THEN "closed" ELSE "broken")
    ELSE w

RECURSIVE WireAfter(_, _)
WireAfter(w, msgs) ==
    IF msgs = <<>> THEN w
    ELSE WireAfter(WireStep(w, Head(msgs).event), Tail(msgs))

\* ------------------------------------------------------------------------
\* State
\* ------------------------------------------------------------------------
VARIABLES
    phase,            \* component lifecycle: created, mounted, aborted, destroyed
    lobbyCode,        \* let lobbyCode
    failure,          \* uncaught exception raised by a handler, "none" if none
    listeners,        \* the three window listeners are registered
    sockState,        \* let socket: undefined, connecting, connected, closed
    socketId,         \* socket.id
    serverIds,        \* numbers of the socket ids the server has handed out
    localIds,         \* the socket ids this client has had
    ackPending,       \* a joinedPhysics acknowledgment is on its way
    joinedPhysics,    \* let joinedPhysics
    cursorHues,       \* const cursorHues
    mousePositions,   \* let mousePositions
    objects,          \* let objects, in for-in iteration order
    dragging,         \* let dragging
    dragId,           \* let dragId
    dragOffset,       \* let dragOffset
    lastMousePos,     \* let lastMousePos
    mouseVelocity,    \* let mouseVelocity
    lastMouseTime,    \* let lastMouseTime
    now,              \* performance.now()
    cursorImg,        \* let cursorImg: undefined, loading, loaded
    animationFrameId, \* let animationFrameId
    rafPending,       \* handles of the draw callbacks waiting for the next frame
    nextHandle,       \* next handle requestAnimationFrame returns
    spriteCache,      \* let spriteCache: per object id, state of its image
    attempted,        \* safeEmit calls made by the last handler
    emitted,          \* packets the last handler handed to socket.emit
    last,             \* the last handler that ran, with its inputs
    samples,          \* pointer samples of the open drag session, grab first
    wire              \* bracketing of the drag messages handed to socket.emit

lifecycleVars == <<phase, lobbyCode, failure, listeners>>
socketVars == <<sockState, socketId, serverIds, localIds, ackPending>>
presenceVars == <<cursorHues, mousePositions>>
dragVars == <<dragging, dragId, dragOffset, lastMousePos, mouseVelocity,
              lastMouseTime, now, samples>>
renderVars == <<cursorImg, animationFrameId, rafPending, nextHandle, spriteCache>>
outVars == <<attempted, emitted, wire>>

vars == <<phase, lobbyCode, failure, listeners, sockState, socketId, serverIds,
          localIds, ackPending, joinedPhysics, cursorHues, mousePositions, objects,
          dragging, dragId, dragOffset, lastMousePos, mouseVelocity,
          lastMouseTime, now, cursorImg, animationFrameId, rafPending,
          nextHandle, spriteCache, attempted, emitted, last, samples, wire>>

BodyIds == {"A", "B"}

Keys(m) == {k \in DOMAIN m : m[k] # None}

Init ==
    /\ phase = "created"
    /\ lobbyCode = Null
    /\ failure = "none"
    /\ listeners = FALSE
    /\ sockState = Undef
    /\ socketId = None
    /\ serverIds = {}
    /\ localIds = {}
    /\ ackPending = FALSE
    /\ joinedPhysics = FALSE
    /\ cursorHues = [id \in Ids |-> None]
    /\ mousePositions = [id \in Ids |-> None]
    /\ objects = <<>>
    /\ dragging = FALSE
    /\ dragId = Null
    /\ dragOffset = Pt(0, 0)
    /\ lastMousePos = Pt(0, 0)
    /\ mouseVelocity = ZeroVel
    /\ lastMouseTime = 0
    /\ now = 1
    /\ cursorImg = Undef
    /\ animationFrameId = None
    /\ rafPending = {}
    /\ nextHandle = 1
    /\ spriteCache = [id \in BodyIds |-> Undef]
    /\ attempted = <<>>
    /\ emitted = <<>>
    /\ last = [op |-> "init"]
    /\ samples = <<>>
    /\ wire = "closed"

\* ------------------------------------------------------------------------
\* Component lifecycle
\* ------------------------------------------------------------------------

\* onMount; param is params.get('lobby')
OnMount(param) ==
    /\ phase = "created"
    /\ lobbyCode' = param
    /\ last' = [op |-> "onMount", lobby |-> param]
    /\ attempted' = <<>>
    /\ emitted' = <<>>
    /\ UNCHANGED wire
    /\ IF param = Null \/ param = ""
       THEN \* alert('No lobby code in URL!'); return
            /\ phase' = "aborted"
            /\ UNCHANGED <<listeners, sockState, cursorImg>>
       ELSE /\ phase' = "mounted"
            /\ cursorImg' = "loading"
            /\ sockState' = "connecting"
            /\ listeners' = TRUE
    /\ UNCHANGED <<failure, socketId, serverIds, localIds, ackPending,
                   joinedPhysics, presenceVars, objects, dragVars, animationFrameId,
                   rafPending, nextHandle, spriteCache>>

\* onDestroy: the listeners go, cancelAnimationFrame(animationFrameId),
\* socket.disconnect(), which throws a TypeError when socket is undefined
OnDestroy ==
    /\ phase \in {"mounted", "aborted"}
    /\ phase' = "destroyed"
    /\ listeners' = FALSE
    /\ rafPending' = IF animationFrameId # None
                     THEN rafPending \ {animationFrameId[1]}
                     ELSE rafPending
    /\ IF sockState = Undef
       THEN /\ failure' = "TypeError"
            /\ UNCHANGED <<sockState, socketId, ackPending>>
       ELSE /\ sockState' = "closed"
            /\ socketId' = None
            /\ ackPending' = FALSE
            /\ UNCHANGED failure
    /\ last' = [op |-> "onDestroy", pendingBefore |-> rafPending]
    /\ attempted' = <<>>
    /\ emitted' = <<>>
    /\ UNCHANGED wire
    /\ UNCHANGED <<lobbyCode, serverIds, localIds, joinedPhysics, presenceVars,
                   objects, dragVars, cursorImg, animationFrameId, nextHandle, spriteCache>>

\* ------------------------------------------------------------------------
\* Socket handlers
\* ------------------------------------------------------------------------

\* socket.on('connect'): n is the number of the fresh id the server assigned,
\* hue is Math.floor(Math.random() * 360)
Connect(n, hue) ==
    /\ sockState = "connecting"
    /\ n \in Ids \ serverIds
    /\ sockState' = "connected"
    /\ socketId' = Some(n)
    /\ serverIds' = serverIds \cup {n}
    /\ localIds' = localIds \cup {n}
    /\ cursorHues' = [cursorHues EXCEPT ![n] = Some(hue)]
    /\ ackPending' = TRUE
    /\ attempted' = <<>>
    /\ emitted' = <<Msg("joinPhysics", <<[lobby |-> lobbyCode]>>)>>
    /\ UNCHANGED wire
    /\ last' = [op |-> "connect", id |-> n]
    /\ UNCHANGED <<lifecycleVars, joinedPhysics, mousePositions, objects,
                   dragVars, renderVars>>

\* socket.on('joinedPhysics')
JoinedPhysics ==
    /\ sockState = "connected"
    /\ ackPending
    /\ joinedPhysics' = TRUE
    /\ ackPending' = FALSE
    /\ attempted' = <<>>
    /\ emitted' = <<>>
    /\ UNCHANGED wire
    /\ last' = [op |-> "joinedPhysics", was |-> joinedPhysics]
    /\ UNCHANGED <<lifecycleVars, sockState, socketId, serverIds, localIds,
                   presenceVars, objects, dragVars, renderVars>>

\* socket.on('connect_error'): console.error only; the transport retries
ConnectError ==
    /\ sockState = "connecting"
    /\ attempted' = <<>>
    /\ emitted' = <<>>
    /\ UNCHANGED wire
    /\ last' = [op |-> "connect_error"]
    /\ UNCHANGED <<lifecycleVars, socketVars, joinedPhysics, presenceVars,
                   objects, dragVars, renderVars>>

\* a disconnect handler that flushes the cached world and the remote cursors
DisconnectFlushes ==
    /\ sockState = "connected"
    /\ sockState' = "connecting"
    /\ socketId' = None
    /\ ackPending' = FALSE
    /\ objects' = <<>>
    /\ mousePositions' = [id \in Ids |-> None]
    /\ attempted' = <<>>
    /\ emitted' = <<>>
    /\ UNCHANGED wire
    /\ last' = [op |-> "disconnect"]
    /\ UNCHANGED <<lifecycleVars, serverIds, localIds, joinedPhysics,
                   cursorHues, dragVars, renderVars>>

\* a disconnect handler that closes the gate again
DisconnectResetsJoin ==
    /\ sockState = "connected"
    /\ sockState' = "connecting"
    /\ socketId' = None
    /\ ackPending' = FALSE
    /\ joinedPhysics' = FALSE
    /\ attempted' = <<>>
    /\ emitted' = <<>>
    /\ UNCHANGED wire
    /\ last' = [op |-> "disconnect"]
    /\ UNCHANGED <<lifecycleVars, serverIds, localIds, presenceVars,
                   objects, dragVars, renderVars>>

\* socket.on('disconnect'): console.warn only; the transport drops socket.id
\* and the acknowledgment in flight, and reconnects
Disconnect ==
    /\ sockState = "connected"
    /\ sockState' = "connecting"
    /\ socketId' = None
    /\ ackPending' = FALSE
    /\ attempted' = <<>>
    /\ emitted' = <<>>
    /\ UNCHANGED wire
    /\ last' = [op |-> "disconnect"]
    /\ UNCHANGED <<lifecycleVars, serverIds, localIds, joinedPhysics,
                   presenceVars, objects, dragVars, renderVars>>

\* socket.on('state')
State(bodies) ==
    /\ sockState = "connected"
    /\ objects' = ApplyBodies(objects, bodies)
    /\ attempted' = <<>>
    /\ emitted' = <<>>
    /\ UNCHANGED wire
    /\ last' = [op |-> "state", bodies |-> bodies, before |-> objects]
    /\ UNCHANGED <<lifecycleVars, socketVars, joinedPhysics, presenceVars,
                   dragVars, renderVars>>

\* a handler without the filter of the local identity
IsOwnMoveNever(id, sid) == FALSE

\* if (id === socket.id) return;
IsOwnMove(id, sid) == sid = Some(id)

\* a hue drawn on every move
HuesAfterMoveRedrawn(hues, id, hue) == [hues EXCEPT ![id] = Some(hue)]

\* if (cursorHues[id] === undefined) cursorHues[id] = random hue
HuesAfterMove(hues, id, hue) ==
    IF hues[id] = None THEN [hues EXCEPT ![id] = Some(hue)] ELSE hues

\* delete mousePositions[id]; cursorHues is not touched
HuesAfterRemove(hues, id) == hues

\* socket.on('mouseMoved'): id is the sender's socket id (known to the
\* server, or handed out to a participant that just connected)
MouseMoved(id, p, hue) ==
    /\ sockState = "connected"
    /\ id \in Ids
    /\ serverIds' = serverIds \cup {id}
    /\ IF IsOwnMove(id, socketId)
       THEN UNCHANGED presenceVars
       ELSE /\ mousePositions' = [mousePositions EXCEPT ![id] = Some(p)]
            /\ cursorHues' = HuesAfterMove(cursorHues, id, hue)
    /\ last' = [op |-> "mouseMoved", id |-> id,
                posBefore |-> mousePositions[id],
                hueBefore |-> cursorHues[id]]
    /\ attempted' = <<>>
    /\ emitted' = <<>>
    /\ UNCHANGED wire
    /\ UNCHANGED <<lifecycleVars, sockState, socketId, localIds, ackPending,
                   joinedPhysics, objects, dragVars, renderVars>>

\* socket.on('mouseRemoved')
MouseRemoved(id) ==
    /\ sockState = "connected"
    /\ id \in serverIds
    /\ mousePositions' = [mousePositions EXCEPT ![id] = None]
    /\ cursorHues' = HuesAfterRemove(cursorHues, id)
    /\ last' = [op |-> "mouseRemoved", id |-> id,
                posBefore |-> mousePositions[id],
                hueBefore |-> cursorHues[id]]
    /\ attempted' = <<>>
    /\ emitted' = <<>>
    /\ UNCHANGED wire
    /\ UNCHANGED <<lifecycleVars, socketVars, joinedPhysics, objects,
                   dragVars, renderVars>>

\* ------------------------------------------------------------------------
\* Pointer handlers
\* ------------------------------------------------------------------------
Sample(p, t) == [x |-> p.x, y |-> p.y, t |-> t]

\* if (dragging && dragId)
SessionOpen(drg, did) == drg /\ did # Null /\ did # ""

\* handleCanvasMousemove: the safeEmit calls it makes
CanvasMoveIntents(p, drg) ==
    IF drg THEN <<Msg("drag", <<p>>)>> ELSE <<>>

\* handleWindowMousemove, lines 99-107: the safeEmit calls it makes
WindowMoveIntents(p, drg, did) ==
    (IF p.x >= 0 /\ p.y >= 0 /\ p.x <= canvasWidth /\ p.y <= canvasHeight
     THEN <<Msg("movemouse", <<p>>)>>
     ELSE <<Msg("mouseLeave", <<>>)>>)
    \o (IF SessionOpen(drg, did) THEN <<Msg("drag", <<p>>)>> ELSE <<>>)

\* a pointer-down that misses and says nothing of the open session
MissIntentsSilent(drg) == <<>>

\* handleCanvasMousedown, lines 173-174: the safeEmit call of a pointer-down
\* that hit no object
MissIntents(drg) ==
    IF drg THEN <<Msg("endDrag", <<>>)>> ELSE <<>>

\* a session closed with its target left in place
ClosedDragIdKept(did) == did

\* dragId = null, when a session is closed (lines 127 and 176)
ClosedDragId(did) == Null

\* handleWindowMouseup: the safeEmit call it makes
MouseupIntents(drg, did, vel) ==
    IF SessionOpen(drg, did)
    THEN <<Msg("endDrag", <<[velocity |-> ThrowVelocity(vel)]>>)>>
    ELSE <<>>

\* One mousemove event at viewport point (clientX, clientY), dt milliseconds
\* after the previous clock reading: the canvas' on:mousemove handler runs
\* when the canvas is the target, then the event bubbles to the window
\* listener when that is registered.
MouseMove(clientX, clientY, rect, dt) ==
    /\ phase \in {"mounted", "aborted"}
    /\ now + dt <= MaxTime
    /\ LET over == OverCanvas(clientX, clientY, rect)
           p == transformMouseToCanvas(clientX, clientY, rect)
           t == now + dt
           fromCanvas == IF over THEN CanvasMoveIntents(p, dragging) ELSE <<>>
           fromWindow == IF listeners
                         THEN WindowMoveIntents(p, dragging, dragId)
                         ELSE <<>>
       IN
       /\ over \/ listeners
       /\ (listeners /\ dragging) => Len(samples) < MaxSamples
       /\ IF listeners
          THEN /\ mouseVelocity' = SampleVelocity(mouseVelocity, lastMousePos,
                                                  lastMouseTime, p, t)
               /\ lastMousePos' = p
               /\ lastMouseTime' = t
               /\ now' = t
               /\ samples' = IF dragging THEN Append(samples, Sample(p, t))
                             ELSE samples
          ELSE UNCHANGED <<mouseVelocity, lastMousePos, lastMouseTime, now, samples>>
       /\ attempted' = fromCanvas \o fromWindow
       /\ emitted' = safeEmit(joinedPhysics, fromCanvas \o fromWindow)
       /\ wire' = WireAfter(wire, safeEmit(joinedPhysics, fromCanvas \o fromWindow))
       /\ last' = [op |-> "mousemove", pt |-> p, over |-> over]
    /\ UNCHANGED <<lifecycleVars, socketVars, joinedPhysics, presenceVars,
                   objects, dragging, dragId, dragOffset, renderVars>>

\* window 'mouseleave': handleWindowMouseleave
MouseLeave ==
    /\ listeners
    /\ attempted' = <<Msg("mouseLeave", <<>>)>>
    /\ emitted' = safeEmit(joinedPhysics, <<Msg("mouseLeave", <<>>)>>)
    /\ UNCHANGED wire
    /\ last' = [op |-> "mouseleave"]
    /\ UNCHANGED <<lifecycleVars, socketVars, joinedPhysics, presenceVars,
                   objects, dragVars, renderVars>>

\* window 'mouseup': handleWindowMouseup
MouseUp ==
    /\ listeners
    /\ attempted' = MouseupIntents(dragging, dragId, mouseVelocity)
    /\ emitted' = safeEmit(joinedPhysics,
                           MouseupIntents(dragging, dragId, mouseVelocity))
    /\ wire' = WireAfter(wire, safeEmit(joinedPhysics,
                               MouseupIntents(dragging, dragId, mouseVelocity)))
    /\ IF SessionOpen(dragging, dragId)
       THEN /\ dragging' = FALSE
            /\ dragId' = ClosedDragId(dragId)
            /\ mouseVelocity' = ZeroVel
            /\ lastMouseTime' = 0
            /\ samples' = <<>>
       ELSE UNCHANGED <<dragging, dragId, mouseVelocity, lastMouseTime, samples>>
    /\ last' = [op |-> "mouseup", wasDragging |-> SessionOpen(dragging, dragId)]
    /\ UNCHANGED <<lifecycleVars, socketVars, joinedPhysics, presenceVars,
                   objects, dragOffset, lastMousePos, now, renderVars>>

\* canvas on:mousedown: handleCanvasMousedown; the canvas is the target, so
\* the viewport point lies in its bounding box
MouseDown(clientX, clientY, rect, dt) ==
    /\ phase \in {"mounted", "aborted"}
    /\ OverCanvas(clientX, clientY, rect)
    /\ now + dt <= MaxTime
    /\ LET p == transformMouseToCanvas(clientX, clientY, rect)
           i == FirstHit(objects, p.x, p.y)
           t == now + dt
       IN
       /\ IF i > 0
          THEN /\ dragging' = TRUE
               /\ dragId' = objects[i].id
               /\ dragOffset' = Pt(p.x - objects[i].x, p.y - objects[i].y)
               /\ lastMousePos' = p
               /\ lastMouseTime' = t
               /\ now' = t
               /\ mouseVelocity' = ZeroVel
               /\ samples' = <<Sample(p, t)>>
               /\ attempted' = <<Msg("startDrag",
                                    <<[id |-> objects[i].id, x |-> p.x, y |-> p.y]>>)>>
               /\ emitted' = safeEmit(joinedPhysics,
                                 <<Msg("startDrag",
                                    <<[id |-> objects[i].id, x |-> p.x, y |-> p.y]>>)>>)
               /\ wire' = WireAfter(wire, safeEmit(joinedPhysics,
                                 <<Msg("startDrag",
                                    <<[id |-> objects[i].id, x |-> p.x, y |-> p.y]>>)>>))
          ELSE /\ attempted' = MissIntents(dragging)
               /\ emitted' = safeEmit(joinedPhysics, MissIntents(dragging))
               /\ wire' = WireAfter(wire, safeEmit(joinedPhysics, MissIntents(dragging)))
               /\ IF dragging
                  THEN /\ dragging' = FALSE
                       /\ dragId' = ClosedDragId(dragId)
                       /\ samples' = <<>>
                       /\ UNCHANGED <<dragOffset, lastMousePos, lastMouseTime,
                                      now, mouseVelocity>>
                  ELSE UNCHANGED dragVars
       /\ last' = [op |-> "mousedown", pt |-> p, hit |-> i,
                   wasDragging |-> dragging]
    /\ UNCHANGED <<lifecycleVars, socketVars, joinedPhysics, presenceVars,
                   objects, renderVars>>

\* ------------------------------------------------------------------------
\* Render loop
\* ------------------------------------------------------------------------

\* the handles requestAnimationFrame returns for k requests in a row
NewHandles(k) == nextHandle..(nextHandle + k - 1)

\* ctx.drawImage throws InvalidStateError for an image whose load failed;
\* index of the first object whose cached sprite is broken, 0 if none
FirstBroken(objs, cache) ==
    IF \E i \in 1..Len(objs) : objs[i].image # Undef /\ cache[objs[i].id] = "broken"
    THEN CHOOSE i \in 1..Len(objs) :
            /\ objs[i].image # Undef /\ cache[objs[i].id] = "broken"
            /\ \A j \in 1..(i - 1) :
                  ~(objs[j].image # Undef /\ cache[objs[j].id] = "broken")
    ELSE 0

\* spriteCache after one pass of draw(): an object with an image and no cached
\* sprite gets a new Image that starts loading; the pass stops at a throw
CacheAfterDraw(objs, cache) ==
    LET b == FirstBroken(objs, cache)
        upto == IF b = 0 THEN Len(objs) ELSE b
    IN  [id \in BodyIds |->
            IF /\ cache[id] = Undef
               /\ \E i \in 1..upto : objs[i].id = id /\ objs[i].image # Undef
            THEN "loading"
            ELSE cache[id]]

\* cursorImg.onload: start the render loop
CursorImgOnload ==
    /\ cursorImg = "loading"
    /\ nextHandle <= MaxHandle
    /\ cursorImg' = "loaded"
    /\ animationFrameId' = Some(nextHandle)
    /\ rafPending' = rafPending \cup {nextHandle}
    /\ nextHandle' = nextHandle + 1
    /\ attempted' = <<>>
    /\ emitted' = <<>>
    /\ UNCHANGED wire
    /\ last' = [op |-> "cursorImg.onload"]
    /\ UNCHANGED <<lifecycleVars, socketVars, joinedPhysics, presenceVars,
                   objects, dragVars, spriteCache>>

\* One display frame: every draw callback pending at its start runs; each
\* pass ends with requestAnimationFrame(draw) unless drawImage threw.
Frame ==
    /\ rafPending # {}
    /\ LET k == Cardinality(rafPending)
           throws == FirstBroken(objects, spriteCache) # 0
       IN
       /\ nextHandle + k - 1 <= MaxHandle
       /\ spriteCache' = CacheAfterDraw(objects, spriteCache)
       /\ IF throws
          THEN /\ rafPending' = {}
               /\ failure' = "InvalidStateError"
               /\ UNCHANGED nextHandle
          ELSE /\ rafPending' = NewHandles(k)
               /\ nextHandle' = nextHandle + k
               /\ UNCHANGED failure
       /\ last' = [op |-> "draw", passes |-> k, phase |-> phase]
    /\ attempted' = <<>>
    /\ emitted' = <<>>
    /\ UNCHANGED wire
    /\ UNCHANGED <<phase, lobbyCode, listeners, socketVars, joinedPhysics,
                   presenceVars, objects, dragVars, cursorImg, animationFrameId>>

\* img.onload of a sprite: requestAnimationFrame(draw)
SpriteOnload(id) ==
    /\ spriteCache[id] = "loading"
    /\ nextHandle <= MaxHandle
    /\ spriteCache' = [spriteCache EXCEPT ![id] = "loaded"]
    /\ rafPending' = rafPending \cup {nextHandle}
    /\ nextHandle' = nextHandle + 1
    /\ attempted' = <<>>
    /\ emitted' = <<>>
    /\ UNCHANGED wire
    /\ last' = [op |-> "sprite.onload", sprite |-> id]
    /\ UNCHANGED <<lifecycleVars, socketVars, joinedPhysics, presenceVars,
                   objects, dragVars, cursorImg, animationFrameId>>

\* img.onerror of a sprite: console.error only
SpriteOnerror(id) ==
    /\ spriteCache[id] = "loading"
    /\ spriteCache' = [spriteCache EXCEPT ![id] = "broken"]
    /\ attempted' = <<>>
    /\ emitted' = <<>>
    /\ UNCHANGED wire
    /\ last' = [op |-> "sprite.onerror", sprite |-> id]
    /\ UNCHANGED <<lifecycleVars, socketVars, joinedPhysics, presenceVars,
                   objects, dragVars, cursorImg, animationFrameId, rafPending,
                   nextHandle>>

\* ------------------------------------------------------------------------
\* Inputs
\* ------------------------------------------------------------------------
Body(id, x, y, w, h, img) ==
    [id |-> id, x |-> x, y |-> y, angle |-> 0, width |-> w, height |-> h,
     image |-> img]

Rect(l, t, w, h) == [left |-> l, top |-> t, width |-> w, height |-> h]
Input(cx, cy, r) == [clientX |-> cx, clientY |-> cy, rect |-> r]

FullRect == Rect(0, 0, 2048, 1024)      \* canvas rendered at its logical size
HalfRect == Rect(24, 20, 1024, 512)     \* rendered at half size, with a margin

LobbyParams == {Null, "", "LOBBY"}

\* objects of the drag scenarios: A is a circle of radius 20 at (500,500),
\* B a 40x40 box at (520,500) overlapping it, A with width 0 is a circle too
BodyA == Body("A", 500, 500, None, None, Undef)
BodyB == Body("B", 520, 500, Some(40), Some(40), Undef)
BodyAFlat == Body("A", 500, 500, Some(0), Some(40), Undef)
DragPayloads == {<<BodyA>>, <<BodyB>>, <<BodyB, BodyA>>, <<BodyAFlat>>}

DragInputs ==
    { Input(505, 505, FullRect),    \* canvas (505,505): in A and in B
      Input(605, 455, FullRect),    \* canvas (605,455): in no object
      Input(292, 272, HalfRect),    \* canvas (536,504): in B only
      Input(3000, 505, FullRect) }  \* outside the canvas, clamped to (2048,505)

GateInputs ==
    { Input(505, 505, FullRect), Input(3000, 505, FullRect) }

FreshId == IF Ids \ serverIds = {} THEN 0
           ELSE CHOOSE n \in Ids \ serverIds : \A m \in Ids \ serverIds : n <= m

\* ------------------------------------------------------------------------
\* Drag controller: pointer events over a cache of overlapping objects
\* ------------------------------------------------------------------------
NextDrag ==
    \/ OnMount("LOBBY")
    \/ Connect(FreshId, 0)
    \/ JoinedPhysics
    \/ \E bodies \in DragPayloads : State(bodies)
    \/ \E i \in DragInputs, dt \in TimeSteps :
          MouseMove(i.clientX, i.clientY, i.rect, dt)
    \/ \E i \in DragInputs, dt \in TimeSteps :
          MouseDown(i.clientX, i.clientY, i.rect, dt)
    \/ MouseUp
    \/ MouseLeave

SpecDrag == Init /\ [][NextDrag]_vars

\* ------------------------------------------------------------------------
\* Connection gateway: pointer events against the whole socket lifecycle
\* ------------------------------------------------------------------------
NextGate ==
    \/ OnMount("LOBBY")
    \/ Connect(FreshId, 0)
    \/ ConnectError
    \/ Disconnect
    \/ JoinedPhysics
    \/ State(<<BodyA>>)
    \/ \E i \in GateInputs, dt \in TimeSteps :
          MouseMove(i.clientX, i.clientY, i.rect, dt)
    \/ \E i \in GateInputs, dt \in TimeSteps :
          MouseDown(i.clientX, i.clientY, i.rect, dt)
    \/ MouseUp
    \/ MouseLeave

SpecGate == Init /\ [][NextGate]_vars

\* ------------------------------------------------------------------------
\* Presence tracker: remote cursors across disconnects and reconnects
\* ------------------------------------------------------------------------
PresencePoints == {Pt(10, 10), Pt(300, 200)}

NextPresence ==
    \/ OnMount("LOBBY")
    \/ \E n \in Ids, hue \in HueSamples : Connect(n, hue)
    \/ Disconnect
    \/ \E id \in Ids, p \in PresencePoints, hue \in HueSamples :
          MouseMoved(id, p, hue)
    \/ \E id \in Ids : MouseRemoved(id)

SpecPresence == Init /\ [][NextPresence]_vars

\* ------------------------------------------------------------------------
\* World state cache: snapshots with repeated ids and differing fields
\* ------------------------------------------------------------------------
CacheBodies ==
    { Body("A", 100, 100, Some(40), Some(40), "a.png"),
      Body("A", 200, 100, None, None, Undef),
      Body("B", 100, 100, None, None, Undef),
      Body("B", 300, 300, Some(20), Some(20), "b.png") }

RECURSIVE SeqsUpTo(_, _)
SeqsUpTo(S, n) ==
    IF n = 0 THEN {<<>>}
    ELSE LET shorter == SeqsUpTo(S, n - 1)
         IN  shorter \cup {Append(q, e) : q \in shorter, e \in S}

CachePayloads == SeqsUpTo(CacheBodies, MaxBodies)

NextCache ==
    \/ OnMount("LOBBY")
    \/ Connect(FreshId, 0)
    \/ Disconnect
    \/ \E bodies \in CachePayloads : State(bodies)

SpecCache == Init /\ [][NextCache]_vars

\* ------------------------------------------------------------------------
\* Coordinate transform: pointer positions far outside the canvas, for a
\* canvas rendered at its logical size, smaller, larger and scrolled away
\* ------------------------------------------------------------------------
BigRect == Rect(0 - 512, 0 - 256, 4096, 2048)

WidePoints == {<<0 - 100, 0 - 100>>, <<24, 20>>, <<505, 505>>, <<1048, 532>>,
               <<5000, 3000>>}

WideInputs == {Input(q[1], q[2], r) : q \in WidePoints,
                                      r \in {FullRect, HalfRect, BigRect}}

NextTransform ==
    \/ OnMount("LOBBY")
    \/ Connect(FreshId, 0)
    \/ JoinedPhysics
    \/ State(<<BodyA>>)
    \/ \E i \in WideInputs : MouseMove(i.clientX, i.clientY, i.rect, 1000)
    \/ \E i \in WideInputs : MouseDown(i.clientX, i.clientY, i.rect, 0)
    \/ MouseUp
    \/ MouseLeave

SpecTransform == Init /\ [][NextTransform]_vars

\* ------------------------------------------------------------------------
\* Render loop and component lifecycle
\* ------------------------------------------------------------------------
SpriteA == Body("A", 500, 500, Some(40), Some(40), "a.png")

NextRender ==
    \/ \E param \in LobbyParams : OnMount(param)
    \/ OnDestroy
    \/ CursorImgOnload
    \/ Frame
    \/ \E id \in BodyIds : SpriteOnload(id)
    \/ \E id \in BodyIds : SpriteOnerror(id)
    \/ Connect(FreshId, 0)
    \/ JoinedPhysics
    \/ State(<<SpriteA>>)
    \/ \E i \in GateInputs : MouseMove(i.clientX, i.clientY, i.rect, 0)
    \/ \E i \in GateInputs : MouseDown(i.clientX, i.clientY, i.rect, 0)
    \/ MouseUp
    \/ MouseLeave

SpecRender == Init /\ [][NextRender]_vars

\* ------------------------------------------------------------------------
\* Transport failures: errors, disconnects and reconnects while a world is
\* cached, a remote cursor is tracked and a drag session is open
\* ------------------------------------------------------------------------
TransportInput == Input(505, 505, FullRect)

NextTransport ==
    \/ OnMount("LOBBY")
    \/ Connect(FreshId, 0)
    \/ ConnectError
    \/ Disconnect
    \/ JoinedPhysics
    \/ State(<<BodyA>>)
    \/ \E id \in Ids : MouseMoved(id, Pt(10, 10), 0)
    \/ MouseMove(TransportInput.clientX, TransportInput.clientY,
                 TransportInput.rect, 0)
    \/ MouseDown(TransportInput.clientX, TransportInput.clientY,
                 TransportInput.rect, 0)
    \/ MouseUp

SpecTransport == Init /\ [][NextTransport]_vars

\* ------------------------------------------------------------------------
\* The whole component
\* ------------------------------------------------------------------------
Next ==
    \/ \E param \in LobbyParams : OnMount(param)
    \/ OnDestroy
    \/ \E n \in Ids, hue \in HueSamples : Connect(n, hue)
    \/ ConnectError
    \/ Disconnect
    \/ JoinedPhysics
    \/ \E bodies \in DragPayloads \cup {<<SpriteA>>} : State(bodies)
    \/ \E id \in Ids, p \in PresencePoints, hue \in HueSamples :
          MouseMoved(id, p, hue)
    \/ \E id \in Ids : MouseRemoved(id)
    \/ \E i \in DragInputs, dt \in TimeSteps :
          MouseMove(i.clientX, i.clientY, i.rect, dt)
    \/ \E i \in DragInputs, dt \in TimeSteps :
          MouseDown(i.clientX, i.clientY, i.rect, dt)
    \/ MouseUp
    \/ MouseLeave
    \/ CursorImgOnload
    \/ Frame
    \/ \E id \in BodyIds : SpriteOnload(id)
    \/ \E id \in BodyIds : SpriteOnerror(id)

Spec == Init /\ [][Next]_vars

\* ------------------------------------------------------------------------
\* Properties
\* ------------------------------------------------------------------------
IntentEvents == {"movemouse", "mouseLeave", "startDrag", "drag", "endDrag"}
Intents(msgs) == SelectSeq(msgs, LAMBDA m : m.event \in IntentEvents)

\* C1: a handler that starts while joinedPhysics is false hands no intent
\* (movemouse, mouseLeave, startDrag, drag, endDrag) to socket.emit, and the
\* handler of the join acknowledgment delivers none of the dropped ones.
C1_NoIntentBeforeJoin ==
    [][~joinedPhysics => Intents(emitted') = <<>>]_vars

\* several intents were generated by one handler before the join
\* acknowledgment and none was transmitted
C1_Witness ==
    /\ ~joinedPhysics
    /\ Len(attempted) >= 2
    /\ emitted = <<>>

\* the test region the hit-test rule describes: the un-rotated rectangle of
\* an object with a width and a height, the circle of radius 20 otherwise
InRegion(o, p) ==
    LET dx == p.x - o.x
        dy == p.y - o.y
    IN  IF Truthy(o.width) /\ Truthy(o.height)
        THEN 2 * Abs(dx) <= o.width[1] /\ 2 * Abs(dy) <= o.height[1]
        ELSE dx * dx + dy * dy <= 20 * 20

Containing(p) == {i \in 1..Len(objects) : InRegion(objects[i], p)}

StartDragOf(o, p) == Msg("startDrag", <<[id |-> o.id, x |-> p.x, y |-> p.y]>>)

\* C2 as stated: after a pointer-down, a session and a start-drag intent
\* exist for every object whose region contains the point, and no session
\* exists when no region contains it.
C2_SessionForEveryObjectHit ==
    last.op = "mousedown" =>
        /\ \A i \in Containing(last.pt) :
              /\ dragging
              /\ dragId = objects[i].id
              /\ attempted = <<StartDragOf(objects[i], last.pt)>>
        /\ Containing(last.pt) = {} => ~dragging

\* C2 amended: after a pointer-down whose point lies in the region of some
\* object, the session and the start-drag intent are those of the first such
\* object in the cache's iteration order; when no region contains the point
\* no session is open.
C2_SessionForFirstObjectHit ==
    last.op = "mousedown" =>
        LET in == Containing(last.pt) IN
        IF in # {}
        THEN LET first == CHOOSE i \in in : \A j \in in : i <= j IN
             /\ dragging
             /\ dragId = objects[first].id
             /\ attempted = <<StartDragOf(objects[first], last.pt)>>
        ELSE ~dragging /\ Intents(attempted) \in {<<>>, <<Msg("endDrag", <<>>)>>}

\* a pointer-down inside two overlapping objects started the session of the
\* one that comes first, here the box B cached before the circle A
C2_Witness ==
    /\ last.op = "mousedown"
    /\ Cardinality(Containing(last.pt)) = 2
    /\ dragging
    /\ dragId = "B"

\* the last finite difference of a sample sequence: the quotient of the two
\* most recent samples that are apart in time, zero when there are none
RECURSIVE LastDifference(_)
LastDifference(ss) ==
    IF Len(ss) < 2 THEN ZeroVel
    ELSE LET a == ss[Len(ss) - 1]
             b == ss[Len(ss)]
         IN  IF b.t > a.t
             THEN Vel(b.x - a.x, b.y - a.y, b.t - a.t)
             ELSE LastDifference(SubSeq(ss, 1, Len(ss) - 1))

\* C3: the pointer-up that closes a drag session issues exactly one end-drag
\* intent, whose velocity is 3/10 of the last finite difference of the
\* samples taken since the grab (zero when there was none).
C3_ThrowIsThreeTenths ==
    [][(last'.op = "mouseup" /\ dragging) =>
          /\ Len(attempted') = 1
          /\ attempted'[1].event = "endDrag"
          /\ LET v == attempted'[1].args[1].velocity
                 d == LastDifference(samples)
             IN  /\ 10 * v.nx * d.d = 3 * d.nx * v.d
                 /\ 10 * v.ny * d.d = 3 * d.ny * v.d]_vars

\* a drag released after a move measured at (100,-50) px/s carried (30,-15)
C3_Witness ==
    /\ last.op = "mouseup"
    /\ last.wasDragging
    /\ Len(emitted) = 1
    /\ emitted[1].event = "endDrag"
    /\ VelEq(emitted[1].args[1].velocity, Vel(30, 0 - 15, 1000))

\* C4: across any step in which a remote id is observed before and after
\* (no presence-removed for it in between), its stored hue exists and does
\* not change, whatever presence-moved events arrive for it.
C4_HueIsStable ==
    [][\A id \in Ids :
          (mousePositions[id] # None /\ mousePositions'[id] # None) =>
              (cursorHues[id] # None /\ cursorHues'[id] = cursorHues[id])]_vars

\* a presence-moved event for an id that was already observed moved its
\* cursor and left the hue drawn at the first observation
C4_Witness ==
    /\ last.op = "mouseMoved"
    /\ last.posBefore # None
    /\ mousePositions[last.id] # last.posBefore
    /\ last.hueBefore # None
    /\ cursorHues[last.id] = last.hueBefore

\* C5: after a presence-removed event for id, neither a position nor a hue
\* is stored for id.
C5_RemoveDeletesHue ==
    last.op = "mouseRemoved" =>
        (mousePositions[last.id] = None /\ cursorHues[last.id] = None)

\* the entry of the cache for id, None when there is none
Cached(id) ==
    IF \E i \in 1..Len(objects) : objects[i].id = id
    THEN Some(objects[CHOOSE i \in 1..Len(objects) : objects[i].id = id])
    ELSE None

\* C6: after a snapshot is applied, the cache holds for every id of the
\* snapshot exactly the last entry the snapshot lists for it, with every
\* field as in that entry, and holds it once.
C6_SnapshotReplacesEntries ==
    last.op = "state" =>
        \A i \in 1..Len(last.bodies) :
            (\A j \in (i + 1)..Len(last.bodies) :
                 last.bodies[j].id # last.bodies[i].id) =>
                /\ Cached(last.bodies[i].id) = Some(last.bodies[i])
                /\ Cardinality({k \in 1..Len(objects) :
                                  objects[k].id = last.bodies[i].id}) = 1

\* a snapshot that lists an id twice was applied over an entry of that id
\* that had a size and an image, and the entry cached now has neither
C6_Witness ==
    /\ last.op = "state"
    /\ Len(last.bodies) = 2
    /\ last.bodies[1].id = last.bodies[2].id
    /\ last.bodies[1] # last.bodies[2]
    /\ \E k \in 1..Len(last.before) :
          /\ last.before[k].id = last.bodies[2].id
          /\ last.before[k].image # Undef
          /\ last.before[k].width # None
    /\ last.bodies[2].image = Undef
    /\ last.bodies[2].width = None
    /\ Cached(last.bodies[2].id) = Some(last.bodies[2])

\* C7: the remote-cursor map never has an entry for the current socket.id.
C7_OwnCursorNotTracked ==
    socketId # None => mousePositions[socketId[1]] = None

\* after a reconnect that changed the local identity, a presence-moved event
\* carrying the new identity arrived and was not stored, while a remote
\* cursor is tracked
C7_Witness ==
    /\ last.op = "mouseMoved"
    /\ socketId = Some(last.id)
    /\ Cardinality(localIds) >= 2
    /\ mousePositions[last.id] = None
    /\ \E id \in Ids : mousePositions[id] # None

InCanvas(x, y) == x >= 0 /\ x <= 2048 /\ y >= 0 /\ y <= 1024

\* C8: every position the transform produced lies in [0,2048] x [0,1024]:
\* the position of every move, start-drag and drag-move intent a handler
\* generated, and the pointer position it stored.
C8_PositionsInCanvas ==
    /\ \A k \in 1..Len(attempted) :
          attempted[k].event \in {"movemouse", "startDrag", "drag"} =>
              InCanvas(attempted[k].args[1].x, attempted[k].args[1].y)
    /\ InCanvas(lastMousePos.x, lastMousePos.y)
    /\ last.op \in {"mousemove", "mousedown"} => InCanvas(last.pt.x, last.pt.y)

\* a move far outside the rendered canvas during a drag was transmitted
\* with its position clamped to the corner of the canvas
C8_Witness ==
    /\ last.op = "mousemove"
    /\ ~last.over
    /\ dragging
    /\ emitted = <<Msg("movemouse", <<Pt(2048, 1024)>>),
                   Msg("drag", <<Pt(2048, 1024)>>)>>

\* C9: once the component is destroyed no draw callback is pending and no
\* draw pass runs.
C9_LoopCancelledOnDestroy ==
    /\ phase = "destroyed" => rafPending = {}
    /\ last.op = "draw" => last.phase # "destroyed"

\* C10: when the lobby identifier is missing, startup is aborted for good:
\* no socket, no join request, no render loop, no window listeners, and no
\* pointer event or teardown transmits a message or fails.
C10_AbortedStartupIsInert ==
    (phase \in {"aborted", "destroyed"} /\ (lobbyCode = Null \/ lobbyCode = "")) =>
        /\ sockState = Undef
        /\ ~ackPending
        /\ cursorImg = Undef
        /\ rafPending = {}
        /\ ~listeners
        /\ emitted = <<>>
        /\ failure = "none"

\* C11: a pointer-down that lies in no object while a session is open
\* issues one end-drag intent without a velocity and leaves the controller
\* idle, with dragging false and dragId null.
C11_MissClosesOpenSession ==
    (last.op = "mousedown" /\ last.wasDragging /\ Containing(last.pt) = {}) =>
        /\ attempted = <<Msg("endDrag", <<>>)>>
        /\ ~dragging
        /\ dragId = Null

\* a pointer-down in no object closed a session that was open, and the
\* end-drag intent was transmitted
C11_Witness ==
    /\ last.op = "mousedown"
    /\ last.wasDragging
    /\ Containing(last.pt) = {}
    /\ objects # <<>>
    /\ emitted = <<Msg("endDrag", <<>>)>>

\* C12: when a display frame has run its draw callbacks, at most one draw
\* callback is pending for the next frame, however many sprites have loaded.
C12_SingleDrawChain ==
    last.op = "draw" => Cardinality(rafPending) <= 1

\* C13: a pointer-move sample taken no later than the previous sample leaves
\* the stored velocity as it was, and the stored velocity never has a zero
\* time difference as its divisor.
C13_StaleSampleKeepsVelocity ==
    [][/\ (last'.op = "mousemove" /\ listeners /\ lastMouseTime > 0
            /\ lastMouseTime' - lastMouseTime <= 0) =>
               mouseVelocity' = mouseVelocity
       /\ mouseVelocity'.d > 0]_vars

\* during a drag a sample arrived at the time of the previous one and at
\* another position, and the velocity is still the non-zero one measured
\* between the two samples before it
C13_Witness ==
    /\ last.op = "mousemove"
    /\ dragging
    /\ Len(samples) >= 3
    /\ LET n == Len(samples) IN
       /\ samples[n].t = samples[n - 1].t
       /\ samples[n].x # samples[n - 1].x
       /\ samples[n - 1].t > samples[n - 2].t
       /\ mouseVelocity = Vel(samples[n - 1].x - samples[n - 2].x,
                              samples[n - 1].y - samples[n - 2].y,
                              samples[n - 1].t - samples[n - 2].t)
       /\ mouseVelocity.nx # 0

IdsOf(seq) == {seq[k].id : k \in 1..Len(seq)}

\* C14: after a snapshot is applied the cached ids are the ids cached before
\* together with the ids of the snapshot, and every id cached before that
\* the snapshot does not list is cached with the entry it had.
C14_AbsentIdsStayCached ==
    last.op = "state" =>
        /\ IdsOf(objects) = IdsOf(last.before) \cup IdsOf(last.bodies)
        /\ \A k \in 1..Len(last.before) :
              last.before[k].id \notin IdsOf(last.bodies) =>
                  Cached(last.before[k].id) = Some(last.before[k])

\* a snapshot that lists only B was applied to a cache that held A, and A
\* is still cached as it was
C14_Witness ==
    /\ last.op = "state"
    /\ IdsOf(last.bodies) = {"B"}
    /\ \E k \in 1..Len(last.before) :
          /\ last.before[k].id = "A"
          /\ Cached("A") = Some(last.before[k])

\* C15: dragging is true exactly when dragId is non-null; a session is
\* opened, or moved to another object, only by a pointer-down that lies in
\* an object, and is closed only by pointer-up or by a pointer-down that
\* lies in no object.
C15_OneConsistentSession ==
    [][/\ dragging <=> dragId # Null
       /\ dragging' <=> dragId' # Null
       /\ (dragging' /\ (~dragging \/ dragId' # dragId)) =>
              (last'.op = "mousedown" /\ Containing(last'.pt) # {})
       /\ (dragging /\ ~dragging') =>
              \/ last'.op = "mouseup"
              \/ (last'.op = "mousedown" /\ Containing(last'.pt) = {})]_vars

\* a session opened by a pointer-down on an object was closed by pointer-up
C15_Witness ==
    /\ last.op = "mouseup"
    /\ last.wasDragging
    /\ ~dragging
    /\ dragId = Null
    /\ samples = <<>>
    /\ objects # <<>>

HasJoin(msgs) == \E k \in 1..Len(msgs) : msgs[k].event = "joinPhysics"

\* what a transport error or disconnect leaves alone
TransportFailureIsLoggedOnly ==
    last'.op \in {"connect_error", "disconnect"} =>
        /\ UNCHANGED <<joinedPhysics, objects, mousePositions, cursorHues,
                       dragging, dragId, dragOffset>>
        /\ emitted' = <<>>

\* C16 as stated: a transport error or disconnect changes nothing of the
\* session, the caches and the drag session and sends nothing, and a join
\* request is sent only on the first transport connect.
C16_JoinOnlyOnFirstConnect ==
    [][/\ TransportFailureIsLoggedOnly
       /\ HasJoin(emitted') => localIds = {}]_vars

\* C16 amended: a transport error or disconnect changes nothing of the
\* session, the caches and the drag session and sends nothing; a join
\* request is sent by the connect handler on every transport connect, the
\* first and each reconnect, and by no other handler.
C16_JoinOnEveryConnect ==
    [][/\ TransportFailureIsLoggedOnly
       /\ HasJoin(emitted') <=> last'.op = "connect"]_vars

\* a disconnect after a reconnect left the gate open, the world cached, a
\* remote cursor tracked and the drag session open
C16_Witness ==
    /\ last.op = "disconnect"
    /\ Cardinality(localIds) >= 2
    /\ joinedPhysics
    /\ objects # <<>>
    /\ \E id \in Ids : mousePositions[id] # None
    /\ dragging
    /\ emitted = <<>>

\* C17: the drag-lifecycle messages handed to socket.emit are well
\* bracketed: every drag and endDrag follows a startDrag with no endDrag in
\* between, and no startDrag follows a startDrag without an endDrag in
\* between.
C17_TransmittedStreamWellBracketed == wire # "broken"

CountOf(msgs, ev) == Len(SelectSeq(msgs, LAMBDA m : m.event = ev))

\* C18: joinedPhysics is false at first, is set only by the handler of the
\* join acknowledgment, and is never reset.
C18_JoinedIsNeverReset ==
    /\ ~joinedPhysics
    /\ [][/\ joinedPhysics => joinedPhysics'
          /\ (~joinedPhysics /\ joinedPhysics') => last'.op = "joinedPhysics"]_vars

\* after a reconnect, with the new join request not yet acknowledged, a
\* handler transmitted intents
C18_Witness ==
    /\ Cardinality(localIds) >= 2
    /\ sockState = "connected"
    /\ ackPending
    /\ joinedPhysics
    /\ Intents(emitted) # <<>>

\* C19: with a drag session open and joinedPhysics true, one pointer-move
\* over the canvas transmits exactly one drag message, carrying the new
\* pointer position.
C19_OneDragPerMove ==
    (last.op = "mousemove" /\ last.over /\ listeners /\ dragging
        /\ joinedPhysics) =>
        /\ CountOf(emitted, "drag") = 1
        /\ \E k \in 1..Len(emitted) : emitted[k] = Msg("drag", <<last.pt>>)

\* C20: a pointer-move never generates a mouseLeave; with the window
\* listeners installed and joinedPhysics true it transmits a movemouse with
\* the clamped position; a mouseLeave is transmitted only by the window
\* mouse-leave handler.
C20_MoveNeverLeaves ==
    /\ last.op = "mousemove" => CountOf(attempted, "mouseLeave") = 0
    /\ (last.op = "mousemove" /\ listeners /\ joinedPhysics) =>
          /\ CountOf(emitted, "movemouse") = 1
          /\ \E k \in 1..Len(emitted) : emitted[k] = Msg("movemouse", <<last.pt>>)
          /\ InCanvas(last.pt.x, last.pt.y)
    /\ CountOf(emitted, "mouseLeave") > 0 => last.op = "mouseleave"

\* a move left of and above the rendered canvas, with no session open, was
\* transmitted as a move to the corner of the canvas
C20_Witness ==
    /\ last.op = "mousemove"
    /\ ~last.over
    /\ ~dragging
    /\ joinedPhysics
    /\ emitted = <<Msg("movemouse", <<Pt(0, 0)>>)>>
====
